---- MODULE Spec2Model ----
(***************************************************************************)
(* Model of VirtualMemorySimulator.py: the three page-replacement          *)
(* simulators (FIFO, LRU, Optimal), driven as run_simulation drives them:  *)
(* one simulator is constructed from (num_frames, page_sequence,           *)
(* algorithm) and page_sequence is passed to access_page one reference at  *)
(* a time.  An exception that leaves access_page ends the loop.            *)
(***************************************************************************)
EXTENDS Integers, Sequences, FiniteSets, TLC

\* Bounds of the explored inputs.
MaxFrames == 3
MaxPage == 3
MaxLen == 5

VARIABLES
    algorithm,          \* run_simulation: the selected algorithm
    num_frames,         \* self.num_frames
    page_sequence,      \* run_simulation: the parsed reference list
    future_references,  \* Optimal.future_references (<<>> for FIFO and LRU)
    pc,                 \* "input", "running", or the exception that left access_page
    i,                  \* number of references taken from page_sequence by the loop
    frames,             \* self.frames
    page_faults,        \* self.page_faults
    page_hits,          \* self.page_hits
    queue,              \* FIFO.queue
    recent_usage,       \* LRU.recent_usage
    fault,              \* value returned by the last access_page ("unset" before)
    report              \* <<>> or <<m>>, m the value returned by the last metrics()

vars == <<algorithm, num_frames, page_sequence, future_references, pc, i,
          frames, page_faults, page_hits, queue, recent_usage, fault, report>>

Algorithms == {"FIFO", "LRU", "Optimal"}

Pages == 1..MaxPage

\* int(self.frames_input.get()): any integer, positive or not.
Capacities == (-1)..MaxFrames

\* list(map(int, text.split(','))): a non-empty list of integers.
ReferenceSequences ==
    (UNION {[1..n -> Pages] : n \in 1..MaxLen})
        \cup {<<1, 2, 3, 4, 1, 2, 5>>, <<1, 2, 3, 1, 2, 4>>, <<1, 2, 3, 1>>}

----------------------------------------------------------------------------
\* Python list / deque primitives.

\* x in s
Contains(s, x) == \E k \in 1..Len(s) : s[k] = x

\* s.index(x), 0-based; -1 stands for ValueError
Index(s, x) ==
    IF Contains(s, x)
    THEN (CHOOSE k \in 1..Len(s) : s[k] = x /\ \A j \in 1..(k - 1) : s[j] # x) - 1
    ELSE -1

\* s.remove(x): drops the first occurrence of x
RECURSIVE Remove(_, _)
Remove(s, x) ==
    IF s = <<>> THEN <<>>
    ELSE IF Head(s) = x THEN Tail(s)
    ELSE <<Head(s)>> \o Remove(Tail(s), x)

SetOf(s) == {s[k] : k \in 1..Len(s)}

----------------------------------------------------------------------------
\* The simulators.

\* access_page: `page in self.frames`
IsResidentLast(fr, page) == fr # <<>> /\ fr[Len(fr)] = page

IsResident(fr, page) == Contains(fr, page)

\* access_page: `len(self.frames) < self.num_frames`
HasFreeFrameOffByOne(fr, nf) == Len(fr) <= nf

HasFreeFrame(fr, nf) == Len(fr) < nf

\* FIFO.replace_page.  exc is the exception that leaves the method, if any;
\* the fields are the object's state at that point.
FIFO_replace_page(fr, q, page) ==
    IF q = <<>>
    THEN [exc |-> "IndexError", frames |-> fr, queue |-> q]
    ELSE LET oldest == Head(q) IN
         IF ~Contains(fr, oldest)
         THEN [exc |-> "ValueError", frames |-> fr, queue |-> Tail(q)]
         ELSE [exc |-> "None",
               frames |-> Append(Remove(fr, oldest), page),
               queue |-> Append(Tail(q), page)]

\* LRU.access_page, hit branch: the counter and the recency update.
LRU_hit_no_count(hits, ru, page) ==
    [page_hits |-> hits, recent_usage |-> Append(Remove(ru, page), page)]

LRU_hit_no_touch(hits, ru, page) ==
    [page_hits |-> hits + 1, recent_usage |-> ru]

LRU_hit(hits, ru, page) ==
    [page_hits |-> hits + 1, recent_usage |-> Append(Remove(ru, page), page)]

\* LRU.replace_page that reads the head of recent_usage without removing it.
LRU_replace_page_keep(fr, ru, page) ==
    IF ru = <<>>
    THEN [exc |-> "IndexError", frames |-> fr, recent_usage |-> ru]
    ELSE LET lru_page == Head(ru) IN
         IF ~Contains(fr, lru_page)
         THEN [exc |-> "ValueError", frames |-> fr, recent_usage |-> ru]
         ELSE [exc |-> "None",
               frames |-> Append(Remove(fr, lru_page), page),
               recent_usage |-> ru]

\* LRU.replace_page that removes the victim and does not install the page.
LRU_replace_page_no_append(fr, ru, page) ==
    IF ru = <<>>
    THEN [exc |-> "IndexError", frames |-> fr, recent_usage |-> ru]
    ELSE LET lru_page == Head(ru) IN
         IF ~Contains(fr, lru_page)
         THEN [exc |-> "ValueError", frames |-> fr, recent_usage |-> Tail(ru)]
         ELSE [exc |-> "None",
               frames |-> Remove(fr, lru_page),
               recent_usage |-> Tail(ru)]

\* LRU.replace_page.
LRU_replace_page(fr, ru, page) ==
    IF ru = <<>>
    THEN [exc |-> "IndexError", frames |-> fr, recent_usage |-> ru]
    ELSE LET lru_page == Head(ru) IN
         IF ~Contains(fr, lru_page)
         THEN [exc |-> "ValueError", frames |-> fr, recent_usage |-> Tail(ru)]
         ELSE [exc |-> "None",
               frames |-> Append(Remove(fr, lru_page), page),
               recent_usage |-> Tail(ru)]

\* LRU(num_frames): the fields of a new simulator; exc is the exception that
\* left the last access_page, if any.
LRU_new ==
    [frames |-> <<>>, recent_usage |-> <<>>, page_faults |-> 0, page_hits |-> 0,
     exc |-> "None"]

\* LRU.access_page as a function of the simulator's fields.
LRU_access_page(st, nf, page) ==
    IF IsResident(st.frames, page)
    THEN LET h == LRU_hit(st.page_hits, st.recent_usage, page) IN
         [st EXCEPT !.page_hits = h.page_hits, !.recent_usage = h.recent_usage]
    ELSE IF HasFreeFrame(st.frames, nf)
         THEN [st EXCEPT !.page_faults = @ + 1,
                         !.frames = Append(@, page),
                         !.recent_usage = Append(@, page)]
         ELSE LET r == LRU_replace_page(st.frames, st.recent_usage, page) IN
              [st EXCEPT !.page_faults = @ + 1,
                         !.frames = r.frames,
                         !.recent_usage = IF r.exc = "None"
                                          THEN Append(r.recent_usage, page)
                                          ELSE r.recent_usage,
                         !.exc = r.exc]

\* The loop of run_simulation over the first n references on an LRU(nf); it
\* ends at the first exception.
RECURSIVE LRU_run(_, _, _)
LRU_run(seq, n, nf) ==
    IF n = 0 THEN LRU_new
    ELSE LET st == LRU_run(seq, n - 1, nf) IN
         IF st.exc # "None" THEN st ELSE LRU_access_page(st, nf, seq[n])

\* Optimal.replace_page: the scan of self.frames from position k on.
RECURSIVE OptimalScan(_, _, _, _, _)
OptimalScan(fr, refs, k, farthest, victim) ==
    IF k > Len(fr) THEN victim
    ELSE LET frame == fr[k]
             distance == Index(refs, frame)
         IN  IF distance = -1 THEN frame
             ELSE IF distance > farthest
                  THEN OptimalScan(fr, refs, k + 1, distance, frame)
                  ELSE OptimalScan(fr, refs, k + 1, farthest, victim)

\* Optimal.replace_page.
Optimal_replace_page(fr, refs, page) ==
    IF fr = <<>>
    THEN [exc |-> "IndexError", frames |-> fr]
    ELSE LET victim == OptimalScan(fr, refs, 1, 0, fr[1]) IN
         [exc |-> "None", frames |-> Append(Remove(fr, victim), page)]

\* metrics(): a rate is kept as the reduced fraction <<numerator, denominator>>.
RECURSIVE GCD(_, _)
GCD(a, b) == IF b = 0 THEN a ELSE GCD(b, a % b)

\* The quotient without the `if total_accesses else 0` guard; <<0, 0>> is 0/0.
RateUnguarded(n, total_accesses) ==
    IF total_accesses # 0
    THEN LET g == GCD(n, total_accesses) IN <<n \div g, total_accesses \div g>>
    ELSE <<n, total_accesses>>

Rate(n, total_accesses) ==
    IF total_accesses # 0
    THEN LET g == GCD(n, total_accesses) IN <<n \div g, total_accesses \div g>>
    ELSE <<0, 1>>

metrics(faults, hits) ==
    LET total_accesses == faults + hits IN
    [PageFaults |-> faults,
     PageHits |-> hits,
     PageFaultRate |-> Rate(faults, total_accesses),
     HitRate |-> Rate(hits, total_accesses)]

----------------------------------------------------------------------------
\* The inputs are read; nothing is constructed yet.
Init ==
    /\ algorithm \in Algorithms
    /\ num_frames \in Capacities
    /\ page_sequence \in ReferenceSequences
    /\ future_references = <<>>
    /\ pc = "input"
    /\ i = 0
    /\ frames = <<>>
    /\ page_faults = 0
    /\ page_hits = 0
    /\ queue = <<>>
    /\ recent_usage = <<>>
    /\ fault = "unset"
    /\ report = <<>>

\* FIFO(num_frames), LRU(num_frames), Optimal(num_frames, page_sequence).
Construct ==
    /\ pc = "input"
    /\ pc' = "running"
    /\ frames' = <<>>
    /\ page_faults' = 0
    /\ page_hits' = 0
    /\ queue' = <<>>
    /\ recent_usage' = <<>>
    /\ future_references' = IF algorithm = "Optimal" THEN page_sequence ELSE <<>>
    /\ UNCHANGED <<algorithm, num_frames, page_sequence, i, fault, report>>

\* The loop of run_simulation has a next reference to pass to access_page.
LoopHasNext == pc = "running" /\ i < Len(page_sequence)

\* VirtualMemorySimulator.access_page on a FIFO.
FIFOAccess ==
    /\ LoopHasNext
    /\ algorithm = "FIFO"
    /\ i' = i + 1
    /\ LET page == page_sequence[i + 1] IN
       IF IsResident(frames, page)
       THEN /\ page_hits' = page_hits + 1
            /\ fault' = FALSE
            /\ UNCHANGED <<frames, queue, page_faults, pc>>
       ELSE /\ page_faults' = page_faults + 1
            /\ page_hits' = page_hits
            /\ IF HasFreeFrame(frames, num_frames)
               THEN /\ frames' = Append(frames, page)
                    /\ fault' = TRUE
                    /\ UNCHANGED <<queue, pc>>
               ELSE LET r == FIFO_replace_page(frames, queue, page) IN
                    /\ frames' = r.frames
                    /\ queue' = r.queue
                    /\ pc' = IF r.exc = "None" THEN pc ELSE r.exc
                    /\ fault' = IF r.exc = "None" THEN TRUE ELSE fault
    /\ UNCHANGED <<algorithm, num_frames, page_sequence, future_references,
                   recent_usage, report>>

\* LRU.access_page.
LRUAccess ==
    /\ LoopHasNext
    /\ algorithm = "LRU"
    /\ i' = i + 1
    /\ LET page == page_sequence[i + 1] IN
       IF IsResident(frames, page)
       THEN LET h == LRU_hit(page_hits, recent_usage, page) IN
            /\ page_hits' = h.page_hits
            /\ recent_usage' = h.recent_usage
            /\ fault' = FALSE
            /\ UNCHANGED <<frames, page_faults, pc>>
       ELSE /\ page_faults' = page_faults + 1
            /\ page_hits' = page_hits
            /\ IF HasFreeFrame(frames, num_frames)
               THEN /\ frames' = Append(frames, page)
                    /\ recent_usage' = Append(recent_usage, page)
                    /\ fault' = TRUE
                    /\ pc' = pc
               ELSE LET r == LRU_replace_page(frames, recent_usage, page) IN
                    /\ frames' = r.frames
                    /\ recent_usage' = IF r.exc = "None"
                                       THEN Append(r.recent_usage, page)
                                       ELSE r.recent_usage
                    /\ pc' = IF r.exc = "None" THEN pc ELSE r.exc
                    /\ fault' = IF r.exc = "None" THEN TRUE ELSE fault
    /\ UNCHANGED <<algorithm, num_frames, page_sequence, future_references,
                   queue, report>>

\* VirtualMemorySimulator.access_page on an Optimal.
OptimalAccess ==
    /\ LoopHasNext
    /\ algorithm = "Optimal"
    /\ i' = i + 1
    /\ LET page == page_sequence[i + 1] IN
       IF IsResident(frames, page)
       THEN /\ page_hits' = page_hits + 1
            /\ fault' = FALSE
            /\ UNCHANGED <<frames, page_faults, pc>>
       ELSE /\ page_faults' = page_faults + 1
            /\ page_hits' = page_hits
            /\ IF HasFreeFrame(frames, num_frames)
               THEN /\ frames' = Append(frames, page)
                    /\ fault' = TRUE
                    /\ pc' = pc
               ELSE LET r == Optimal_replace_page(frames, future_references, page) IN
                    /\ frames' = r.frames
                    /\ pc' = IF r.exc = "None" THEN pc ELSE r.exc
                    /\ fault' = IF r.exc = "None" THEN TRUE ELSE fault
    /\ UNCHANGED <<algorithm, num_frames, page_sequence, future_references,
                   queue, recent_usage, report>>

\* metrics() that starts a new measurement after reporting.
MetricsResetting ==
    /\ pc # "input"
    /\ report' = <<metrics(page_faults, page_hits)>>
    /\ page_faults' = 0
    /\ page_hits' = 0
    /\ UNCHANGED <<algorithm, num_frames, page_sequence, future_references, pc, i,
                   frames, queue, recent_usage, fault>>

\* metrics(), called on the constructed simulator at any point.
Metrics ==
    /\ pc # "input"
    /\ report' = <<metrics(page_faults, page_hits)>>
    /\ UNCHANGED <<algorithm, num_frames, page_sequence, future_references, pc, i,
                   frames, page_faults, page_hits, queue, recent_usage, fault>>

Next ==
    \/ Construct
    \/ FIFOAccess
    \/ LRUAccess
    \/ OptimalAccess
    \/ Metrics

Spec == Init /\ [][Next]_vars

----------------------------------------------------------------------------
\* Vocabulary of the properties.

Raised == pc \in {"IndexError", "ValueError"}

\* The step about to be taken is access_page(page_sequence[i + 1]).
NextPage == page_sequence[i + 1]

\* This step is a call of access_page.
AccessStep == LoopHasNext /\ i' = i + 1

\* This step is a call of access_page that faults with every frame occupied.
FullFaultStep ==
    /\ AccessStep
    /\ num_frames >= 1
    /\ Len(frames) = num_frames
    /\ ~Contains(frames, NextPage)

\* Positions (1-based) of p in page_sequence strictly after the current reference.
FutureUses(p) == {j \in (i + 2)..Len(page_sequence) : page_sequence[j] = p}

NextUse(p) == CHOOSE j \in FutureUses(p) : \A k \in FutureUses(p) : j <= k

\* Position of the most recent reference to p among those already processed.
PastUses(p) == {j \in 1..i : page_sequence[j] = p}

LastAccess(p) == CHOOSE j \in PastUses(p) : \A k \in PastUses(p) : k <= j

----------------------------------------------------------------------------
\* C1: for every policy and capacity >= 1, once the whole reference sequence
\* has been passed to access_page, page_faults + page_hits equals its length.
C1_CountersSumToLength ==
    (pc # "input" /\ num_frames >= 1 /\ i = Len(page_sequence))
        => page_faults + page_hits = Len(page_sequence)

C1_Witness ==
    /\ algorithm = "LRU"
    /\ pc = "running"
    /\ i = Len(page_sequence)
    /\ page_hits > 0
    /\ page_faults > num_frames
    /\ num_frames >= 2

\* C2: with capacity >= 1, access_page never raises, whatever the page and
\* the state, a full frame table included.
C2_StepIsTotal == num_frames >= 1 => ~Raised

\* C3: under FIFO, a fault with a full frame table completes and evicts the
\* earliest-inserted resident page (frames is kept in insertion order, so
\* that page is its first element); the new page goes to the end.
C3_FIFOEvictsOldest ==
    [][(algorithm = "FIFO" /\ FullFaultStep)
         => (pc' = "running" /\ frames' = Append(Tail(frames), NextPage))]_vars

\* C4: under Optimal, on a fault with a full frame table where some resident
\* page never occurs again, no resident page that does occur again is evicted.
C4_OptimalEvictsUnusedFirst ==
    [][(/\ algorithm = "Optimal"
        /\ FullFaultStep
        /\ \E p \in SetOf(frames) : FutureUses(p) = {})
         => \A p \in SetOf(frames) : FutureUses(p) # {} => p \in SetOf(frames')]_vars

\* C5: under Optimal, on a fault with a full frame table where every resident
\* page occurs again, the evicted page is the one whose next occurrence is
\* the farthest.
C5_OptimalEvictsFarthest ==
    [][(/\ algorithm = "Optimal"
        /\ FullFaultStep
        /\ \A p \in SetOf(frames) : FutureUses(p) # {})
         => LET victim == CHOOSE p \in SetOf(frames) :
                              \A q \in SetOf(frames) : NextUse(q) <= NextUse(p)
            IN  frames' = Append(Remove(frames, victim), NextPage)]_vars

\* C6: under LRU, a fault with a full frame table evicts the resident page
\* whose most recent access (insertion or hit) is the oldest.
C6_LRUEvictsLeastRecent ==
    [][(algorithm = "LRU" /\ FullFaultStep)
         => LET victim == CHOOSE p \in SetOf(frames) :
                              \A q \in SetOf(frames) : LastAccess(p) <= LastAccess(q)
            IN  /\ pc' = "running"
                /\ frames' = Append(Remove(frames, victim), NextPage)]_vars

\* The end of the run LRU, 3 frames, [1,2,3,1,2,4]: 3 was evicted by 4.
C6_Witness ==
    /\ algorithm = "LRU"
    /\ num_frames = 3
    /\ page_sequence = <<1, 2, 3, 1, 2, 4>>
    /\ i = 6
    /\ frames = <<1, 2, 4>>
    /\ page_faults = 4
    /\ page_hits = 2

\* C7: for every policy and capacity >= 1, frames never holds more pages
\* than num_frames.
C7_ResidentAtMostCapacity ==
    (pc # "input" /\ num_frames >= 1) => Len(frames) <= num_frames

C7_Witness ==
    /\ pc = "running"
    /\ num_frames >= 1
    /\ Len(frames) = num_frames
    /\ page_faults > num_frames
    /\ i = Len(page_sequence)

\* C8: a capacity below 1 is rejected at construction: no simulator is
\* produced and no access_page step is taken on it.
C8_InvalidCapacityRejected ==
    num_frames < 1 => (pc \in {"input", "InvalidCapacity"} /\ i = 0)

\* C9: no page appears more than once in frames.
C9_NoDuplicateResident ==
    \A a, b \in 1..Len(frames) : frames[a] = frames[b] => a = b

C9_Witness ==
    /\ algorithm = "Optimal"
    /\ pc = "running"
    /\ Len(frames) >= 2
    /\ page_faults > num_frames
    /\ page_hits > 0

\* C10: a call of metrics() leaves frames, the queues and both counters
\* unchanged, and returns what the previous call returned when no
\* access_page was made since that call.
C10_MetricsIsPure ==
    [][(pc # "input" /\ i' = i /\ pc' = pc)
         => /\ UNCHANGED <<frames, queue, recent_usage, page_faults, page_hits>>
            /\ (/\ report # <<>>
                /\ report[1].PageFaults + report[1].PageHits = page_faults + page_hits)
                 => report' = report]_vars

C10_Witness ==
    /\ report = <<metrics(page_faults, page_hits)>>
    /\ page_faults > num_frames
    /\ page_hits > 0
    /\ num_frames >= 1
    /\ pc = "running"

\* C11: while no reference has been processed, metrics() returns, and the
\* value it returns has both counters 0 and both rates exactly 0.
C11_RatesZeroBeforeAnyAccess ==
    (pc # "input" /\ page_faults + page_hits = 0 /\ report # <<>>)
        => /\ report[1].PageFaults = 0
           /\ report[1].PageHits = 0
           /\ report[1].PageFaultRate = <<0, 1>>
           /\ report[1].HitRate = <<0, 1>>

C11_Witness ==
    /\ pc = "running"
    /\ i = 0
    /\ page_faults + page_hits = 0
    /\ report # <<>>
    /\ report[1].PageFaultRate = <<0, 1>>
    /\ report[1].HitRate = <<0, 1>>

\* C12: under FIFO, the pages in the arrival queue are, as a set, the pages
\* in frames, in every state, the filling of the table included.
C12_FIFOQueueMatchesFrames ==
    algorithm = "FIFO" => SetOf(queue) = SetOf(frames)

C14_OptimalFirstUnusedInTableOrder ==
    [][(/\ algorithm = "Optimal"
        /\ FullFaultStep
        /\ Cardinality({p \in SetOf(frames) : FutureUses(p) = {}}) >= 2)
         => LET k == CHOOSE a \in 1..Len(frames) :
                         /\ FutureUses(frames[a]) = {}
                         /\ \A b \in 1..(a - 1) : FutureUses(frames[b]) # {}
            IN  frames' = Append(Remove(frames, frames[k]), NextPage)]_vars

\* C15: for every policy, access_page(p) returns False (a hit) exactly when
\* p is resident before the call, and a hit leaves frames unchanged and,
\* under FIFO, the arrival queue unchanged.
C15_HitIffResident ==
    [][AccessStep
         => /\ (pc' = "running" /\ fault' = FALSE) <=> Contains(frames, NextPage)
            /\ Contains(frames, NextPage)
                 => /\ frames' = frames
                    /\ algorithm = "FIFO" => queue' = queue]_vars

C15_Witness ==
    /\ algorithm = "FIFO"
    /\ pc = "running"
    /\ page_hits > 0
    /\ fault = FALSE
    /\ Len(frames) = num_frames
    /\ Contains(frames, page_sequence[i])

\* C16: for every policy (capacity >= 1), a fault with a free frame appends
\* the page to frames and evicts nothing; a fault with a full frame table
\* removes exactly one resident page and appends the new page, the others
\* keeping their order; either way the page is resident after the step.
C16_FaultEffectOnFrames ==
    [][(AccessStep /\ num_frames >= 1 /\ ~Contains(frames, NextPage))
         => /\ IF Len(frames) < num_frames
               THEN frames' = Append(frames, NextPage)
               ELSE \E victim \in SetOf(frames) :
                        frames' = Append(Remove(frames, victim), NextPage)
            /\ Contains(frames', NextPage)]_vars

\* C17: for every policy, each access_page call increases exactly one of
\* page_faults and page_hits, by exactly 1, and leaves the other unchanged;
\* no step decreases a counter.
C17_OneCounterPerAccess ==
    [][/\ AccessStep
            => \/ page_faults' = page_faults + 1 /\ page_hits' = page_hits
               \/ page_hits' = page_hits + 1 /\ page_faults' = page_faults
       /\ page_faults' >= page_faults
       /\ page_hits' >= page_hits]_vars

C17_Witness ==
    /\ algorithm = "LRU"
    /\ pc = "running"
    /\ page_hits >= 2
    /\ page_faults >= 2
    /\ report # <<>>

\* The function LRU_run computes the state the LRU simulator is in.
LRURunAgreesWithState ==
    (algorithm = "LRU" /\ pc # "input")
        => LET st == LRU_run(page_sequence, i, num_frames) IN
           /\ st.frames = frames
           /\ st.recent_usage = recent_usage
           /\ st.page_faults = page_faults
           /\ st.page_hits = page_hits
           /\ st.exc = IF pc = "running" THEN "None" ELSE pc

Min(a, b) == IF a <= b THEN a ELSE b

\* Pages referenced by the access_page calls made so far.
Referenced == {page_sequence[j] : j \in 1..i}

\* C18: for every policy and capacity >= 1, the number of resident pages is
\* min(capacity, number of distinct pages referenced so far), and it never
\* decreases.
C18_ResidentCount ==
    /\ []((pc # "input" /\ num_frames >= 1)
            => Len(frames) = Min(num_frames, Cardinality(Referenced)))
    /\ [][num_frames >= 1 => Len(frames') >= Len(frames)]_vars

C18_Witness ==
    /\ algorithm = "Optimal"
    /\ pc = "running"
    /\ num_frames = 2
    /\ Len(frames) = 2
    /\ Cardinality(Referenced) = 3
    /\ page_hits > 0

\* C19: for every capacity >= 1 and reference sequence, the Optimal simulator
\* constructed with the sequence ends the run with at most as many faults as
\* the LRU simulator of the same capacity on the same sequence.
C19_OptimalNoWorseThanLRU ==
    (/\ algorithm = "Optimal"
     /\ num_frames >= 1
     /\ pc = "running"
     /\ i = Len(page_sequence))
        => page_faults <= LRU_run(page_sequence, i, num_frames).page_faults

\* C20: an LRU simulator of capacity C >= 1 and one of capacity C + 1 fed the
\* same references: after every step the pages resident in the smaller are
\* resident in the larger, and the larger has not faulted more often.
C20_LRUInclusion ==
    (algorithm = "LRU" /\ num_frames >= 1 /\ pc # "input")
        => LET larger == LRU_run(page_sequence, i, num_frames + 1) IN
           /\ larger.exc = "None"
           /\ SetOf(frames) \subseteq SetOf(larger.frames)
           /\ larger.page_faults <= page_faults

C20_Witness ==
    /\ algorithm = "LRU"
    /\ pc = "running"
    /\ num_frames = 2
    /\ page_sequence = <<1, 2, 3, 1, 2, 4>>
    /\ i = 6
    /\ SetOf(frames) = {2, 4}
    /\ SetOf(LRU_run(page_sequence, i, 3).frames) = {1, 2, 4}
    /\ page_faults = 6
    /\ LRU_run(page_sequence, i, 3).page_faults = 4

====
